---- MODULE Spec2Model ----
(***************************************************************************)
(* MrTidy: the collection stage (collect.py) resolves a capture date for   *)
(* every media file from its EXIF and META tags and writes one ledger row  *)
(* per file; the tidy stage (tidy.py) reads the ledger, asks about         *)
(* duplicates and places every file in the archive tree.                   *)
(*                                                                         *)
(* Text is a sequence of one-character strings.  A CJK character is the    *)
(* token "uXXXX" of its code point.  Python's None is the value None.      *)
(***************************************************************************)
EXTENDS Integers, Sequences, FiniteSets, TLC

VARIABLES
    pc,            \* where the running stage stands
    raw_datetime,  \* process_datetime: its argument (normalizer runs)
    pro_datetime,  \* process_datetime: its outcome (normalizer runs)
    file,          \* collect: the file being parsed (its decoded tag sets)
    exif_dt,       \* get_datetime: result of get_exif_datetime
    meta_dt,       \* get_datetime: result of get_meta_datetime
    msg,           \* get_datetime: the record it returns
    dt_exif_key,   \* process_files: local, assigned only inside "if file_dtl"
    dt_meta_key,   \* process_files: local, assigned only inside "if file_dtl"
    result,        \* process_files: the rows appended so far
    columns,       \* tidy: the columns of result_df.xlsx after the index ("missing": no file)
    file_dataframe,   \* tidy main: the ledger as read
    d_df,          \* chk_duplicate: the rows exported as duplicates
    sel,           \* chk_duplicate: the operator's last answer
    chked_dataframe,  \* tidy main: what chk_duplicate returned
    remove,        \* tidy main: its remove argument (--remove)
    dirs,          \* the directories of the destination tree
    tree,          \* the files of the destination tree
    tree0,         \* the files the destination tree held when the run began
    sources,       \* the source paths that can be read
    row_i,         \* reorgnize_file: rows done
    success,       \* reorgnize_file: counter
    fail,          \* reorgnize_file: counter
    confi,         \* reorgnize_file: local, set once before the loop
    yerr_files,    \* reorgnize_file: audit rows
    failed_files,  \* reorgnize_file: failure rows
    moved          \* move_file: the placements its last line logged

collectVars == <<file, exif_dt, meta_dt, msg, dt_exif_key, dt_meta_key, result>>
normVars    == <<raw_datetime, pro_datetime>>
ledgerVars  == <<columns, file_dataframe, d_df, sel, chked_dataframe, remove, tree0>>
treeVars    == <<dirs, tree, sources>>
loopVars    == <<row_i, success, fail, confi, yerr_files, failed_files, moved>>
tidyVars    == <<ledgerVars, treeVars, loopVars>>
vars        == <<pc, normVars, collectVars, tidyVars>>

None == <<"None">>

(***************************************************************************)
(* Characters                                                              *)
(***************************************************************************)
Digits == <<"0", "1", "2", "3", "4", "5", "6", "7", "8", "9">>

DigitSet == {Digits[i] : i \in 1..Len(Digits)}

IsDigit(c) == c \in DigitSet

DigitVal(c) == CHOOSE i \in 0..9 : Digits[i + 1] = c

\* [A-Za-z]
LatinLetters ==
    {"A", "B", "C", "D", "E", "F", "G", "H", "I", "J", "K", "L", "M",
     "N", "O", "P", "Q", "R", "S", "T", "U", "V", "W", "X", "Y", "Z",
     "a", "b", "c", "d", "e", "f", "g", "h", "i", "j", "k", "l", "m",
     "n", "o", "p", "q", "r", "s", "t", "u", "v", "w", "x", "y", "z"}

\* [一-龥]: the characters of that range the inputs use
CJKChars == {"u4E00", "u4E0A", "u4E0B", "u5348", "u5E74", "u6708", "u65E5", "u9FA5"}

\* \s
IsSpace(c) == c \in {" ", "\t"}

At(s, p) == IF p >= 1 /\ p <= Len(s) THEN s[p] ELSE ""

RECURSIVE DigitRun(_, _)
\* the number of consecutive digits of s from position p on
DigitRun(s, p) == IF IsDigit(At(s, p)) THEN 1 + DigitRun(s, p + 1) ELSE 0

RECURSIVE SpaceRun(_, _)
SpaceRun(s, p) == IF IsSpace(At(s, p)) THEN 1 + SpaceRun(s, p + 1) ELSE 0

RECURSIVE IntOf(_, _, _)
\* int() of the k digits of s that start at p
IntOf(s, p, k) ==
    IF k = 0 THEN 0 ELSE IntOf(s, p, k - 1) * 10 + DigitVal(s[p + k - 1])

Pad2(n) == <<Digits[((n \div 10) % 10) + 1], Digits[(n % 10) + 1]>>

\* f"{n}" for 0 <= n, and f"{n:02}" = Pad2 for n < 100
RECURSIVE Str(_)
Str(n) == IF n < 10 THEN <<Digits[n + 1]>> ELSE Str(n \div 10) \o <<Digits[(n % 10) + 1]>>

Fmt02(n) == IF n < 100 THEN Pad2(n) ELSE Str(n)

Max(S) == CHOOSE x \in S : \A y \in S : y <= x

(***************************************************************************)
(* process_datetime                                                        *)
(***************************************************************************)
\* re.sub(r'[一-龥A-Za-z]', '', s)
StripLetters(s) == SelectSeq(s, LAMBDA c : c \notin CJKChars /\ c \notin LatinLetters)

\* s.replace(a, b) for one-character a, b
Replace(s, a, b) == [i \in 1..Len(s) |-> IF s[i] = a THEN b ELSE s[i]]

\* \d{1,2} followed by what the pattern puts after it: the digit run at p has one
\* or two digits (a third digit leaves no way to reach the terminator)
OneOrTwo(s, p) == DigitRun(s, p) \in {1, 2}

\* The groups of  \d{4}:\d{1,2}:\d{1,2}\s+\d{1,2}:\d{1,2}:\d{1,2}  begun at p.
MatchAt(s, p) ==
    LET pM  == p + 5
        kM  == DigitRun(s, pM)
        pD  == pM + kM + 1
        kD  == DigitRun(s, pD)
        w   == SpaceRun(s, pD + kD)
        pH  == pD + kD + w
        kH  == DigitRun(s, pH)
        pMi == pH + kH + 1
        kMi == DigitRun(s, pMi)
        pS  == pMi + kMi + 1
        kS  == DigitRun(s, pS)
        kS2 == IF kS > 2 THEN 2 ELSE kS
        ok  == /\ DigitRun(s, p) >= 4 /\ At(s, p + 4) = ":"
               /\ OneOrTwo(s, pM)  /\ At(s, pM + kM) = ":"
               /\ OneOrTwo(s, pD)  /\ w >= 1
               /\ OneOrTwo(s, pH)  /\ At(s, pH + kH) = ":"
               /\ OneOrTwo(s, pMi) /\ At(s, pMi + kMi) = ":"
               /\ kS >= 1
    IN  IF ok
        THEN [ok |-> TRUE, year |-> IntOf(s, p, 4), month |-> IntOf(s, pM, kM),
              day |-> IntOf(s, pD, kD), hour |-> IntOf(s, pH, kH),
              minute |-> IntOf(s, pMi, kMi), second |-> IntOf(s, pS, kS2)]
        ELSE [ok |-> FALSE, year |-> 0, month |-> 0, day |-> 0, hour |-> 0,
              minute |-> 0, second |-> 0]

\* re.search(r'.*(?P<year>\d{4}):...(?P<second>\d{1,2}).*', s): the leading .* is
\* greedy, so the groups are those of the last place the pattern begins at.
ReSearch(s) ==
    LET starts == {p \in 1..Len(s) : MatchAt(s, p).ok}
    IN  IF starts = {} THEN MatchAt(s, 0) ELSE MatchAt(s, Max(starts))

\* f"{year}:{month:02}:{day:02} {hour:02}:{minute:02}:{second:02}"
Canonical(year, month, day, hour, minute, second) ==
    Str(year) \o <<":">> \o Fmt02(month) \o <<":">> \o Fmt02(day) \o <<" ">>
      \o Fmt02(hour) \o <<":">> \o Fmt02(minute) \o <<":">> \o Fmt02(second)

Returned(v) == [raised |-> "", value |-> v]

Raised(e) == [raised |-> e, value |-> None]

\* process_datetime without its year test
DatetimeOfMatchAnyYear(m) ==
    IF ~m.ok THEN Raised("AttributeError")
    ELSE IF m.month < 1 \/ m.month > 12 THEN Returned(None)
    ELSE IF m.day < 1 \/ m.day > 31 THEN Returned(None)
    ELSE Returned(Canonical(m.year, m.month, m.day, m.hour % 24, m.minute % 60,
                            m.second % 60))

\* process_datetime without the wrap of hour, minute and second
DatetimeOfMatchUnwrapped(m) ==
    IF ~m.ok THEN Raised("AttributeError")
    ELSE IF m.year < 1900 \/ m.year > 2050 THEN Returned(None)
    ELSE IF m.month < 1 \/ m.month > 12 THEN Returned(None)
    ELSE IF m.day < 1 \/ m.day > 31 THEN Returned(None)
    ELSE Returned(Canonical(m.year, m.month, m.day, m.hour, m.minute, m.second))

\* What the function does with the match object m (None when m.ok is FALSE).
DatetimeOfMatch(m) ==
    IF ~m.ok THEN Raised("AttributeError")       \* datetime.group on None
    ELSE IF m.year < 1900 \/ m.year > 2050 THEN Returned(None)
    ELSE IF m.month < 1 \/ m.month > 12 THEN Returned(None)
    ELSE IF m.day < 1 \/ m.day > 31 THEN Returned(None)
    ELSE LET hour   == IF m.hour < 0 \/ m.hour > 23 THEN m.hour % 24 ELSE m.hour
             minute == IF m.minute < 0 \/ m.minute > 59 THEN m.minute % 60 ELSE m.minute
             second == IF m.second < 0 \/ m.second > 59 THEN m.second % 60 ELSE m.second
         IN  Returned(Canonical(m.year, m.month, m.day, hour, minute, second))

process_datetime(raw) ==
    DatetimeOfMatch(ReSearch(Replace(Replace(StripLetters(raw), "-", ":"), "/", ":")))

(***************************************************************************)
(* time.strptime / time.strftime                                           *)
(***************************************************************************)
IsLeap(y) == (y % 4 = 0 /\ y % 100 # 0) \/ y % 400 = 0

DaysInMonth(y, m) ==
    IF m = 2 THEN (IF IsLeap(y) THEN 29 ELSE 28)
    ELSE IF m \in {4, 6, 9, 11} THEN 30 ELSE 31

\* time.strptime(s, '%Y:%m:%d %H:%M:%S') of a text process_datetime returned
\* (four-digit year, two digits elsewhere): the fields are read back from the
\* text, and a day the month does not have raises ValueError.
strptime(s) ==
    LET t == [year |-> IntOf(s, 1, 4), month |-> IntOf(s, 6, 2), day |-> IntOf(s, 9, 2),
              hour |-> IntOf(s, 12, 2), minute |-> IntOf(s, 15, 2),
              second |-> IntOf(s, 18, 2)]
        ok == /\ Len(s) = 19
              /\ t.month \in 1..12 /\ t.day \in 1..31
              /\ t.hour \in 0..23 /\ t.minute \in 0..59 /\ t.second \in 0..61
              /\ t.day <= DaysInMonth(t.year, t.month)
    IN  IF ok THEN [raised |-> "", tm |-> t] ELSE [raised |-> "ValueError", tm |-> t]

\* time.strftime('%Y/%m', t)
ShortDate(t) == Str(t.year) \o <<"/">> \o Pad2(t.month)

\* time.strftime('%Y%m%d_%H%M%S', t)
LongDate(t) ==
    Str(t.year) \o Pad2(t.month) \o Pad2(t.day) \o <<"_">>
      \o Pad2(t.hour) \o Pad2(t.minute) \o Pad2(t.second)

(***************************************************************************)
(* get_exif_datetime, get_meta_datetime                                    *)
(***************************************************************************)
_EXIF_KEYS == <<"EXIF DateTimeOriginal", "EXIF DateTimeDigitized", "Image DateTime">>

_META_KEYS == <<"Date-time original", "Date-time digitized", "Creation date">>

\* A decoded source: decode is "error" when the decoder raised, else "ok" with the
\* tag set, a set of <<tag name, text>> pairs holding one text per name.
HasKey(tags, k) == \E t \in tags : t[1] = k

TagValue(tags, k) == (CHOOSE t \in tags : t[1] = k)[2]

\* the key of the list found last instead of first
LastKey(tags, tag_keys) ==
    LET found == {i \in 1..Len(tag_keys) : HasKey(tags, tag_keys[i])}
    IN  IF found = {} THEN "None"
        ELSE tag_keys[CHOOSE i \in found : \A j \in found : j <= i]

\* for i in range(len(tag_keys)): if tag_keys[i] in tags: datetime_key = ...; break
FirstKey(tags, tag_keys) ==
    LET found == {i \in 1..Len(tag_keys) : HasKey(tags, tag_keys[i])}
    IN  IF found = {} THEN "None"
        ELSE tag_keys[CHOOSE i \in found : \A j \in found : i <= j]

DtMsg(type, stat, key, raw, short, long) ==
    [raised |-> "", stat |-> stat, type |-> type, key |-> key, raw |-> raw,
     short |-> short, long |-> long]

DtRaise(type, e) ==
    [raised |-> e, stat |-> "1", type |-> type, key |-> "None", raw |-> None,
     short |-> None, long |-> None]

\* The body the two extractors share, from the decoded tags on.
ExtractDatetime(type, src, tag_keys) ==
    IF src.decode = "error" THEN DtMsg(type, "1", "None", None, None, None)
    ELSE IF src.tags = {} THEN DtMsg(type, "2", "None", None, None, None)
    ELSE LET datetime_key == FirstKey(src.tags, tag_keys)
         IN  IF datetime_key = "None" THEN DtMsg(type, "3", "None", None, None, None)
             ELSE LET raw == TagValue(src.tags, datetime_key)
                      pro == process_datetime(raw)
                  IN  IF pro.raised # "" THEN DtRaise(type, pro.raised)
                      ELSE IF pro.value = None
                           THEN DtMsg(type, "4", "None", None, None, None)
                      ELSE LET dt == strptime(pro.value)
                           IN  IF dt.raised # "" THEN DtRaise(type, dt.raised)
                               ELSE DtMsg(type, "0", datetime_key, raw,
                                          ShortDate(dt.tm), LongDate(dt.tm))

get_exif_datetime(f) == ExtractDatetime("EXIF", f.exif, _EXIF_KEYS)

get_meta_datetime(f) == ExtractDatetime("META", f.meta, _META_KEYS)

(***************************************************************************)
(* get_datetime                                                            *)
(***************************************************************************)
begin_year == 2000

\* time.localtime().tm_year on the day of the run
tm_year == 2026

\* int(short.split('/')[0])
RECURSIVE Find(_, _, _)
Find(s, c, p) == IF p > Len(s) \/ s[p] = c THEN p ELSE Find(s, c, p + 1)

YearOfShort(short) == IntOf(short, 1, Find(short, "/", 1) - 1)

\* the check without the comparison of the two long dates
CheckOfUncompared(EXIF_L, META_L) ==
    IF EXIF_L # None /\ META_L # None THEN "BOTH"
    ELSE IF EXIF_L # None THEN "EXIF" ELSE "META"

\* lines 279-289: the check before the year test
CheckOf(EXIF_L, META_L) ==
    IF EXIF_L # None /\ META_L # None
    THEN (IF EXIF_L = META_L THEN "BOTH" ELSE "D_ERR")
    ELSE IF EXIF_L # None THEN "EXIF" ELSE "META"

\* lines 290-292: the year test
YearGate(check, the_year) ==
    IF check \in {"BOTH", "EXIF", "META"}
       /\ (the_year < begin_year \/ the_year > tm_year)
    THEN "Y_ERR" ELSE check

\* lines 263-289: msg with the check as it stands before the year test
Classify(e, m) ==
    LET eok == e.stat = "0"
        mok == m.stat = "0"
    IN  [stat   |-> IF eok \/ mok THEN "0" ELSE "1",
         check  |-> IF eok \/ mok
                    THEN CheckOf(IF eok THEN e.long ELSE None,
                                 IF mok THEN m.long ELSE None)
                    ELSE "None",
         EXIF_K |-> IF eok THEN e.key ELSE "None",
         EXIF_R |-> IF eok THEN e.raw ELSE None,
         EXIF_S |-> IF eok THEN e.short ELSE None,
         EXIF_L |-> IF eok THEN e.long ELSE None,
         META_K |-> IF mok THEN m.key ELSE "None",
         META_R |-> IF mok THEN m.raw ELSE None,
         META_S |-> IF mok THEN m.short ELSE None,
         META_L |-> IF mok THEN m.long ELSE None]

\* the_year: line 270, overwritten by line 278 when META has a date
TheYear(m) ==
    IF m.META_S # None THEN YearOfShort(m.META_S) ELSE YearOfShort(m.EXIF_S)

(***************************************************************************)
(* Normalizer runs: process_datetime applied to one raw text               *)
(***************************************************************************)
\* The raw texts: six numbers written in one of the styles below.
NormYears   == {999, 1899, 1900, 2022, 2050, 2051}
NormMonths  == {0, 1, 4, 12, 13}
NormDays    == {0, 1, 30, 31, 32}
NormHours   == {0, 7, 23, 24, 99}
NormMinutes == {0, 59, 60, 75}
NormSeconds == {5, 59, 61}
NormStyles  == {"colon", "dash_pm", "slash_cjk", "unpadded", "labelled", "date_only"}

Pad4(n) == <<Digits[((n \div 1000) % 10) + 1], Digits[((n \div 100) % 10) + 1]>> \o Pad2(n)

Write(style, y, mo, d, h, mi, s) ==
    CASE style = "colon" ->
           Pad4(y) \o <<":">> \o Pad2(mo) \o <<":">> \o Pad2(d) \o <<" ">>
             \o Pad2(h) \o <<":">> \o Pad2(mi) \o <<":">> \o Pad2(s)
      [] style = "dash_pm" ->
           Pad4(y) \o <<"-">> \o Pad2(mo) \o <<"-">> \o Pad2(d) \o <<" ">>
             \o Pad2(h) \o <<":">> \o Pad2(mi) \o <<":">> \o Pad2(s) \o <<" ", "P", "M">>
      [] style = "slash_cjk" ->
           Pad4(y) \o <<"/">> \o Pad2(mo) \o <<"/">> \o Pad2(d) \o <<" ", "u4E0B", "u5348", " ">>
             \o Pad2(h) \o <<":">> \o Pad2(mi) \o <<":">> \o Pad2(s)
      [] style = "unpadded" ->
           Pad4(y) \o <<":">> \o Str(mo) \o <<":">> \o Str(d) \o <<" ", " ">>
             \o Str(h) \o <<":">> \o Str(mi) \o <<":">> \o Str(s)
      [] style = "labelled" ->
           <<"D", "a", "t", "e", " ", "1", ":", " ">>
             \o Pad4(y) \o <<":">> \o Pad2(mo) \o <<":">> \o Pad2(d) \o <<"\t">>
             \o Pad2(h) \o <<":">> \o Pad2(mi) \o <<":">> \o Pad2(s) \o <<"+", "0", "8">>
      [] style = "date_only" ->
           Pad4(y) \o <<":">> \o Pad2(mo) \o <<":">> \o Pad2(d)

NormInputs ==
    [style : NormStyles, year : NormYears, month : NormMonths, day : NormDays,
     hour : NormHours, minute : NormMinutes, second : NormSeconds]

WriteInput(i) == Write(i.style, i.year, i.month, i.day, i.hour, i.minute, i.second)

(***************************************************************************)
(* process_files, main (collect.py)                                        *)
(***************************************************************************)
MaxFiles == 2

RawA      == Write("colon", 2022, 4, 1, 15, 25, 38)
RawA2     == Write("dash_pm", 2022, 4, 1, 15, 25, 38)
RawB      == Write("unpadded", 2021, 1, 2, 3, 4, 5)
RawWrap   == Write("colon", 2022, 4, 1, 39, 85, 98)
RawOld    == Write("slash_cjk", 1995, 12, 31, 23, 59, 59)
RawFuture == Write("colon", 2040, 2, 29, 0, 0, 0)
Raw1899   == Write("colon", 1899, 6, 15, 12, 0, 0)
Raw2051   == Write("colon", 2051, 6, 15, 12, 0, 0)
RawNoTime == Write("date_only", 2022, 4, 1, 0, 0, 0)
RawApr31  == Write("colon", 2022, 4, 31, 10, 0, 0)
RawFeb30  == Write("dash_pm", 2023, 2, 30, 10, 0, 0)

ResolveRaws == {RawA, RawA2, RawWrap, RawOld, RawFuture, Raw1899, Raw2051,
                RawNoTime, RawApr31, RawFeb30}

BatchRaws == {RawA, RawNoTime, RawApr31}

\* The decoded sources over the keys: unreadable, no tags, tags without any of
\* the keys, one key present, two keys present (the later one holding RawB).
Sources(tag_keys, raws) ==
    {[decode |-> "error", tags |-> {}], [decode |-> "ok", tags |-> {}],
     [decode |-> "ok", tags |-> {<<"Make", <<"C", "a", "n", "o", "n">>>>}]}
    \cup {[decode |-> "ok", tags |-> {<<tag_keys[i], r>>}] :
            i \in 1..Len(tag_keys), r \in raws}
    \cup {[decode |-> "ok", tags |-> {<<tag_keys[ij[1]], r>>, <<tag_keys[ij[2]], RawB>>}] :
            ij \in {x \in (1..Len(tag_keys)) \X (1..Len(tag_keys)) : x[1] < x[2]},
            r \in raws}

SingleSources(tag_keys, raws) ==
    {s \in Sources(tag_keys, raws) : Cardinality(s.tags) <= 1}

NoSource == [decode |-> "error", tags |-> {}]

ResolveFiles ==
    [type : {"image", "video"}, exif : Sources(_EXIF_KEYS, ResolveRaws),
     meta : Sources(_META_KEYS, ResolveRaws)]

BatchFiles ==
    [type : {"image", "video"}, exif : SingleSources(_EXIF_KEYS, BatchRaws),
     meta : SingleSources(_META_KEYS, BatchRaws)]
    \cup {[type |-> "other", exif |-> NoSource, meta |-> NoSource]}

NoFile == [type |-> "none", exif |-> NoSource, meta |-> NoSource]

NoDt == DtMsg("-", "-", "None", None, None, None)

\* lines 361-368: the locals process_files resets for every file
NoMsg ==
    [stat |-> "None", check |-> "None",
     EXIF_K |-> "None", EXIF_R |-> None, EXIF_S |-> None, EXIF_L |-> None,
     META_K |-> "None", META_R |-> None, META_S |-> None, META_L |-> None]

InitIdle ==
    /\ file = NoFile
    /\ exif_dt = NoDt
    /\ meta_dt = NoDt
    /\ msg = NoMsg
    /\ dt_exif_key = "unbound"
    /\ dt_meta_key = "unbound"
    /\ result = <<>>

InitTidyIdle ==
    /\ columns = <<>>
    /\ file_dataframe = <<>>
    /\ d_df = <<>>
    /\ sel = ""
    /\ chked_dataframe = <<>>
    /\ remove = FALSE
    /\ dirs = {}
    /\ tree = {}
    /\ tree0 = {}
    /\ sources = {}
    /\ row_i = 0
    /\ success = 0
    /\ fail = 0
    /\ confi = "None"
    /\ yerr_files = <<>>
    /\ failed_files = <<>>
    /\ moved = <<>>

InitNormIdle ==
    /\ raw_datetime = [style |-> "colon", year |-> 0, month |-> 0, day |-> 0,
                       hour |-> 0, minute |-> 0, second |-> 0]
    /\ pro_datetime = Returned(None)

InitNorm ==
    /\ pc = "norm_ready"
    /\ raw_datetime \in NormInputs
    /\ pro_datetime = Returned(None)
    /\ InitIdle
    /\ InitTidyIdle

NormProcess ==
    /\ pc = "norm_ready"
    /\ pro_datetime' = process_datetime(WriteInput(raw_datetime))
    /\ pc' = "norm_done"
    /\ UNCHANGED <<raw_datetime, collectVars, tidyVars>>

NextNorm == NormProcess

SpecNorm == InitNorm /\ [][NextNorm]_vars

IsMedia(f) == f.type = "image" \/ f.type = "video"

\* for file in files: the next file of the directory, its locals reset
ParseFile(files, max) ==
    /\ pc = "next"
    /\ Len(result) < max
    /\ \E f \in files :
         /\ file' = f
         /\ pc' = IF IsMedia(f) THEN "exif" ELSE "append"
    /\ exif_dt' = NoDt
    /\ meta_dt' = NoDt
    /\ msg' = NoMsg
    /\ UNCHANGED <<dt_exif_key, dt_meta_key, result, normVars, tidyVars>>

\* get_datetime, line 260
GetExifDatetime ==
    /\ pc = "exif"
    /\ exif_dt' = get_exif_datetime(file)
    /\ pc' = IF exif_dt'.raised # "" THEN "aborted" ELSE "meta"
    /\ UNCHANGED <<file, meta_dt, msg, dt_exif_key, dt_meta_key, result, normVars, tidyVars>>

\* get_datetime, line 261
GetMetaDatetime ==
    /\ pc = "meta"
    /\ meta_dt' = get_meta_datetime(file)
    /\ pc' = IF meta_dt'.raised # "" THEN "aborted" ELSE "classify"
    /\ UNCHANGED <<file, exif_dt, msg, dt_exif_key, dt_meta_key, result, normVars, tidyVars>>

\* get_datetime, lines 263-289
GetDatetime ==
    /\ pc = "classify"
    /\ msg' = Classify(exif_dt, meta_dt)
    /\ pc' = "gate"
    /\ UNCHANGED <<file, exif_dt, meta_dt, dt_exif_key, dt_meta_key, result, normVars, tidyVars>>

\* get_datetime, lines 290-296
YearTest ==
    /\ pc = "gate"
    /\ msg' = IF msg.stat = "0"
              THEN [msg EXCEPT !.check = YearGate(msg.check, TheYear(msg))]
              ELSE msg
    /\ pc' = "append"
    /\ UNCHANGED <<file, exif_dt, meta_dt, dt_exif_key, dt_meta_key, result, normVars, tidyVars>>

Row(type, m, exif_key, meta_key) ==
    [type |-> type, check |-> m.check,
     EXIF_K |-> exif_key, EXIF_R |-> m.EXIF_R, EXIF_S |-> m.EXIF_S, EXIF_L |-> m.EXIF_L,
     META_K |-> meta_key, META_R |-> m.META_R, META_S |-> m.META_S, META_L |-> m.META_L]

\* process_files, lines 372-384: the row of the file is appended.  The key locals
\* are assigned for a media file only; for another file line 383 reads what an
\* earlier file left, or raises NameError when no file has bound them.
AppendRow ==
    /\ pc = "append"
    /\ IF IsMedia(file)
       THEN /\ dt_exif_key' = msg.EXIF_K
            /\ dt_meta_key' = msg.META_K
            /\ result' = Append(result, Row(file.type, msg, msg.EXIF_K, msg.META_K))
            /\ pc' = "next"
       ELSE IF dt_exif_key = "unbound"
       THEN /\ pc' = "aborted"
            /\ UNCHANGED <<dt_exif_key, dt_meta_key, result>>
       ELSE /\ result' = Append(result, Row(file.type, msg, dt_exif_key, dt_meta_key))
            /\ pc' = "next"
            /\ UNCHANGED <<dt_exif_key, dt_meta_key>>
    /\ UNCHANGED <<file, exif_dt, meta_dt, msg, normVars, tidyVars>>

\* main, lines 444-449: the walk is over and the ledger is written
WriteLedger ==
    /\ pc = "next"
    /\ pc' = "written"
    /\ UNCHANGED <<collectVars, normVars, tidyVars>>

InitCollect ==
    /\ pc = "next"
    /\ InitIdle
    /\ InitNormIdle
    /\ InitTidyIdle

\* One file, with every pair of decoded sources
NextResolve ==
    \/ ParseFile(ResolveFiles, 1)
    \/ GetExifDatetime
    \/ GetMetaDatetime
    \/ GetDatetime
    \/ YearTest
    \/ AppendRow
    \/ WriteLedger

SpecResolve == InitCollect /\ [][NextResolve]_vars

\* A directory of up to MaxFiles files
NextCollect ==
    \/ ParseFile(BatchFiles, MaxFiles)
    \/ GetExifDatetime
    \/ GetMetaDatetime
    \/ GetDatetime
    \/ YearTest
    \/ AppendRow
    \/ WriteLedger

SpecCollect == InitCollect /\ [][NextCollect]_vars

(***************************************************************************)
(* tidy.py: names and directories                                          *)
(***************************************************************************)
\* _FILE_CATEGORY
_FILE_CATEGORY(key) ==
    CASE key = "image_with_datetime"    -> "Photos_bydt"
      [] key = "image_without_datetime" -> "Photos_nodt"
      [] key = "video_with_datetime"    -> "Photos_bydt"
      [] key = "video_without_datetime" -> "Videos_nodt"
      [] key = "year_err"               -> "Year_err"
      [] key = "other"                  -> "Other_files"

CategoryKeys == {"image_with_datetime", "image_without_datetime", "video_with_datetime",
                 "video_without_datetime", "year_err", "other"}

\* _DATE_DIRS: the categories whose key ends in with_datetime
_DATE_DIRS == {_FILE_CATEGORY(k) : k \in {"image_with_datetime", "video_with_datetime"}}

\* A directory of the tree: os.path.join(base, *sub)
Dir(base, sub) == [base |-> base, sub |-> sub]

\* short.split('/')
RECURSIVE Split(_, _)
Split(s, c) ==
    LET p == Find(s, c, 1)
    IN  IF p > Len(s) THEN <<s>>
        ELSE <<SubSeq(s, 1, p - 1)>> \o Split(SubSeq(s, p + 1, Len(s)), c)

\* f"{n:05}"
Fmt05(n) ==
    LET d == Str(n)
    IN  [i \in 1..(IF Len(d) < 5 THEN 5 - Len(d) ELSE 0) |-> "0"] \o d

\* A file name  <prefix>_<body>_<tag>_<seq>.<ext>  (prefix and tag may be absent)
Name(prefix, body, tag, seq, ext) ==
    [prefix |-> prefix, body |-> body, tag |-> tag, seq |-> seq, ext |-> ext]

\* os.listdir(d): the files in d and the directories directly under d
ListDir(ds, t, d) ==
    {<<"f", e.name>> : e \in {x \in t : x.dir = d}}
    \cup {<<"d", c.sub[Len(c.sub)]>> :
            c \in {x \in ds : /\ x.base = d.base
                              /\ Len(x.sub) = Len(d.sub) + 1
                              /\ SubSeq(x.sub, 1, Len(d.sub)) = d.sub}}

\* re.sub(r'^_+', '', s)
RECURSIVE LStrip(_)
LStrip(s) == IF s # <<>> /\ Head(s) = "_" THEN LStrip(Tail(s)) ELSE s

\* re.sub(r'_+$', '', s)
RECURSIVE RStrip(_)
RStrip(s) ==
    IF s # <<>> /\ s[Len(s)] = "_" THEN RStrip(SubSeq(s, 1, Len(s) - 1)) ELSE s

\* re.sub(r'___*', '_', s): every run of two or more underscores becomes one
RECURSIVE Squeeze(_)
Squeeze(s) ==
    IF Len(s) < 2 THEN s
    ELSE IF s[1] = "_" /\ s[2] = "_" THEN Squeeze(Tail(s))
    ELSE <<s[1]>> \o Squeeze(Tail(s))

\* pick_num without its last substitution
pick_numUnsqueezed(fname) == RStrip(LStrip(StripLetters(fname)))

pick_num(fname) == Squeeze(RStrip(LStrip(StripLetters(fname))))

(***************************************************************************)
(* chk_cols, chk_duplicate                                                 *)
(***************************************************************************)
_COLS_SET ==
    <<"path", "type", "ext", "size", "md5", "check", "EXIF_K", "EXIF_R", "EXIF_S",
      "EXIF_L", "META_K", "META_R", "META_S", "META_L">>

\* chk_cols comparing the columns without their order
chk_colsAnyOrder(cols, cols_set) ==
    {cols[i] : i \in 1..Len(cols)} = {cols_set[i] : i \in 1..Len(cols_set)}

chk_cols(cols, cols_set) == cols = cols_set

\* _D_COLS_SET
DupKey(r) == <<r.ext, r.size, r.md5>>

\* file_dataframe[file_dataframe.duplicated(keys, keep=False)]
Duplicated(df) ==
    SelectSeq(df, LAMBDA r : Cardinality({j \in 1..Len(df) : DupKey(df[j]) = DupKey(r)}) > 1)

\* drop_duplicates(keys, keep='last')
RECURSIVE DropDuplicatesKeepLast(_)
DropDuplicatesKeepLast(df) ==
    IF df = <<>> THEN <<>>
    ELSE IF \E j \in 2..Len(df) : DupKey(df[j]) = DupKey(df[1])
         THEN DropDuplicatesKeepLast(Tail(df))
         ELSE <<df[1]>> \o DropDuplicatesKeepLast(Tail(df))

\* file_dataframe.drop_duplicates(keys): the first row of every key is kept
RECURSIVE DropDuplicates(_)
DropDuplicates(df) ==
    IF df = <<>> THEN <<>>
    ELSE LET init == SubSeq(df, 1, Len(df) - 1)
             last == df[Len(df)]
         IN  IF \E j \in 1..Len(init) : DupKey(init[j]) = DupKey(last)
             THEN DropDuplicates(init)
             ELSE Append(DropDuplicates(init), last)

(***************************************************************************)
(* reorgnize_file: the target of one row                                   *)
(***************************************************************************)
\* lines 311-318, 322-329: the code of one source's key; an unknown key leaves
\* confi as it was
ConfiOne(type, key, keys, old) ==
    IF key = keys[1] THEN type \o "_U"
    ELSE IF key = keys[2] THEN type \o "_H"
    ELSE IF key = keys[3] THEN type \o "_N"
    ELSE old

\* the code of a BOTH record taken from the EXIF key alone
ConfiBothExifOnly(ek, mk, old) ==
    IF ek = _EXIF_KEYS[1] THEN "BOTH_U"
    ELSE IF ek = _EXIF_KEYS[2] THEN "BOTH_H"
    ELSE IF ek = _EXIF_KEYS[3] THEN "BOTH_N"
    ELSE old

\* lines 333-340
ConfiBoth(ek, mk, old) ==
    IF ek = _EXIF_KEYS[1] \/ mk = _META_KEYS[1] THEN "BOTH_U"
    ELSE IF ek = _EXIF_KEYS[2] \/ mk = _META_KEYS[2] THEN "BOTH_H"
    ELSE IF ek = _EXIF_KEYS[3] \/ mk = _META_KEYS[3] THEN "BOTH_N"
    ELSE old

\* the choice with META preferred when both sources sit at the tier
ChoseDErrMetaFirst(ek, mk, old) ==
    IF ek = _EXIF_KEYS[1] \/ mk = _META_KEYS[1]
    THEN [chose |-> IF mk = _META_KEYS[1] THEN "META" ELSE "EXIF", confi |-> "U"]
    ELSE IF ek = _EXIF_KEYS[2] \/ mk = _META_KEYS[2]
    THEN [chose |-> IF mk = _META_KEYS[2] THEN "META" ELSE "EXIF", confi |-> "H"]
    ELSE IF ek = _EXIF_KEYS[3] \/ mk = _META_KEYS[3]
    THEN [chose |-> IF mk = _META_KEYS[3] THEN "META" ELSE "EXIF", confi |-> "N"]
    ELSE [chose |-> "None", confi |-> old]

\* lines 344-364: the side chosen for a D_ERR row and the letter of its tier
ChoseDErr(ek, mk, old) ==
    IF ek = _EXIF_KEYS[1] \/ mk = _META_KEYS[1]
    THEN [chose |-> IF ek = _EXIF_KEYS[1] THEN "EXIF" ELSE "META", confi |-> "U"]
    ELSE IF ek = _EXIF_KEYS[2] \/ mk = _META_KEYS[2]
    THEN [chose |-> IF ek = _EXIF_KEYS[2] THEN "EXIF" ELSE "META", confi |-> "H"]
    ELSE IF ek = _EXIF_KEYS[3] \/ mk = _META_KEYS[3]
    THEN [chose |-> IF ek = _EXIF_KEYS[3] THEN "EXIF" ELSE "META", confi |-> "N"]
    ELSE [chose |-> "None", confi |-> old]

Planned(d, n, c, y) ==
    [raised |-> "", dir |-> d, name |-> n, confi |-> c, yerr |-> y]

PlanRaise(e, c) ==
    [raised |-> e, dir |-> Dir("", <<>>), name |-> Name("", <<>>, "", <<>>, ""),
     confi |-> c, yerr |-> FALSE]

\* the sequence number without the + 1
SeqInZeroBased(ds, t, d) == Fmt05(Cardinality(ListDir(ds, t, d)))

\* len(os.listdir(target_dir)) + 1, formatted
SeqIn(ds, t, d) == Fmt05(Cardinality(ListDir(ds, t, d)) + 1)

\* IMG_<long>_<confi>_<seq>.<ext> in <category>/<short>
DatedTarget(ds, t, r, short, long, c) ==
    LET d == Dir(_FILE_CATEGORY(r.type \o "_with_datetime"), Split(short, "/"))
    IN  IF d \notin ds THEN PlanRaise("FileNotFoundError", c)
        ELSE Planned(d, Name("IMG", long, c, SeqIn(ds, t, d), r.ext), c, FALSE)

\* the flat target without the mark for the audit list
FlatTargetNoAudit(ds, t, r, key, prefix, body, tag, c, y) ==
    LET d == Dir(_FILE_CATEGORY(key), <<>>)
    IN  IF d \notin ds THEN PlanRaise("FileNotFoundError", c)
        ELSE Planned(d, Name(prefix, body, tag, SeqIn(ds, t, d), r.ext), c, FALSE)

FlatTarget(ds, t, r, key, prefix, body, tag, c, y) ==
    LET d == Dir(_FILE_CATEGORY(key), <<>>)
    IN  IF d \notin ds THEN PlanRaise("FileNotFoundError", c)
        ELSE Planned(d, Name(prefix, body, tag, SeqIn(ds, t, d), r.ext), c, y)

\* lines 305-386: target_dir, target_path and confi for row r, or what is raised
Target(ds, t, r, old) ==
    IF r.check = "EXIF"
    THEN DatedTarget(ds, t, r, r.EXIF_S, r.EXIF_L, ConfiOne("EXIF", r.EXIF_K, _EXIF_KEYS, old))
    ELSE IF r.check = "META"
    THEN DatedTarget(ds, t, r, r.META_S, r.META_L, ConfiOne("META", r.META_K, _META_KEYS, old))
    ELSE IF r.check = "BOTH"
    THEN DatedTarget(ds, t, r, r.EXIF_S, r.EXIF_L, ConfiBoth(r.EXIF_K, r.META_K, old))
    ELSE IF r.check = "D_ERR"
    THEN LET c == ChoseDErr(r.EXIF_K, r.META_K, old)
         IN  IF c.chose = "None" THEN PlanRaise("TypeError", old)
             ELSE IF c.chose = "EXIF"
             THEN DatedTarget(ds, t, r, r.EXIF_S, r.EXIF_L, "D_" \o c.chose \o "_" \o c.confi)
             ELSE DatedTarget(ds, t, r, r.META_S, r.META_L, "D_" \o c.chose \o "_" \o c.confi)
    ELSE IF r.check = "Y_ERR"
    THEN FlatTarget(ds, t, r, "year_err", "", r.path.stem, "", old, TRUE)
    ELSE IF r.type # "other"
    THEN FlatTarget(ds, t, r, r.type \o "_without_datetime", "IMG", pick_num(r.path.stem),
                    "NODT", old, FALSE)
    ELSE FlatTarget(ds, t, r, "other", "", r.path.stem, "", old, FALSE)

\* move_file without the failure of the copy or move itself
MoveReasonBlind(ds, srcs, src, d, rm) ==
    IF d \notin ds THEN "no target directory" ELSE ""

(***************************************************************************)
(* move_file                                                               *)
(***************************************************************************)
\* The reason move_file returns ("" for None) for a copy or move of src to
\* name in directory d.
MoveReason(ds, srcs, src, d, rm) ==
    IF d \notin ds THEN "no target directory"
    ELSE IF src \notin srcs THEN (IF rm THEN "move error" ELSE "copy error")
    ELSE ""

\* shutil.copyfile / shutil.move: the target holds the source's content
\* afterwards, whatever it held before
Written(t, src, d, n) ==
    {e \in t : ~(e.dir = d /\ e.name = n)} \cup {[dir |-> d, name |-> n, from |-> src]}

(***************************************************************************)
(* tidy.py: main                                                           *)
(***************************************************************************)
MaxRows == 3

Text_a1    == <<"a", "1">>
Text_a2    == <<"a", "2">>
Text_a3    == <<"a", "3">>
Text_notes == <<"n", "o", "t", "e", "s">>
Text_y1    == <<"y", "_", "1">>
Text_gone  == <<"g", "o", "n", "e">>
Text_w     == <<"I", "M", "G", "_", "0", "0", "7">>
Text_v     == <<"_", "_", "v", "_", "1", "_", "_", "_", "2", "x", "_">>
Text_pre   == <<"p", "r", "e">>
Text_yxlsx == <<"y", "e", "a", "r", "_", "e", "r", "r", "_", "d", "f">>
Text_fxlsx == <<"f", "a", "i", "l", "e", "d", "_", "f", "i", "l", "e", "s", "_", "d", "f">>

Path(stem, ext) == [stem |-> stem, ext |-> ext]

Tm(y, mo, d, h, mi, sec) ==
    [year |-> y, month |-> mo, day |-> d, hour |-> h, minute |-> mi, second |-> sec]

D1   == Tm(2022, 4, 1, 15, 25, 38)
D2   == Tm(2021, 1, 2, 3, 4, 5)
DOld == Tm(1995, 12, 31, 23, 59, 59)

\* A ledger row (the two raw-text columns, which the tidy stage never reads,
\* are left out)
LedgerRow(path, type, size, md5, check, ek, es, el, mk, ms, ml) ==
    [path |-> path, type |-> type, ext |-> path.ext, size |-> size, md5 |-> md5,
     check |-> check, EXIF_K |-> ek, EXIF_S |-> es, EXIF_L |-> el,
     META_K |-> mk, META_S |-> ms, META_L |-> ml]

ExifRow(path, type, size, md5, check, ek, t) ==
    LedgerRow(path, type, size, md5, check, ek, ShortDate(t), LongDate(t), "None", None, None)

MetaRow(path, type, size, md5, check, mk, t) ==
    LedgerRow(path, type, size, md5, check, "None", None, None, mk, ShortDate(t), LongDate(t))

TwoRow(path, type, size, md5, check, ek, te, mk, tm) ==
    LedgerRow(path, type, size, md5, check, ek, ShortDate(te), LongDate(te),
              mk, ShortDate(tm), LongDate(tm))

BareRow(path, type, size, md5) ==
    LedgerRow(path, type, size, md5, "None", "None", None, None, "None", None, None)

\* The rows a ledger is mostly made of: three photos of the same second (the
\* second a copy of the first), a document, a photo of 1995, a photo whose
\* source can no longer be read.
NarrowRows ==
    {ExifRow(Path(Text_a1, "jpg"), "image", 10, "h1", "EXIF", _EXIF_KEYS[1], D1),
     ExifRow(Path(Text_a2, "jpg"), "image", 10, "h1", "EXIF", _EXIF_KEYS[1], D1),
     ExifRow(Path(Text_a3, "jpg"), "image", 10, "h2", "EXIF", _EXIF_KEYS[1], D1),
     BareRow(Path(Text_notes, "txt"), "other", 1, "h3"),
     ExifRow(Path(Text_y1, "jpg"), "image", 30, "h4", "Y_ERR", _EXIF_KEYS[1], DOld),
     ExifRow(Path(Text_gone, "jpg"), "image", 40, "h5", "EXIF", _EXIF_KEYS[1], D1)}

\* The rows a ledger holds at most one of: every kind of record.
WideRows ==
    {TwoRow(Path(Text_w, "jpg"), "image", 20, "hw", "D_ERR", _EXIF_KEYS[i], D1, _META_KEYS[j], D2) :
        i \in 1..3, j \in 1..3}
    \cup {TwoRow(Path(Text_w, "jpg"), "image", 20, "hw", "D_ERR",
                 _EXIF_KEYS[1], DOld, _META_KEYS[1], D1),
          TwoRow(Path(Text_w, "jpg"), "image", 20, "hw", "D_ERR",
                 _EXIF_KEYS[2], D1, _META_KEYS[1], DOld)}
    \cup {ExifRow(Path(Text_w, "jpg"), "image", 20, "hw", "EXIF", _EXIF_KEYS[i], D1) : i \in 2..3}
    \cup {MetaRow(Path(Text_w, "mp4"), "video", 20, "hw", "META", _META_KEYS[j], D1) : j \in 1..3}
    \cup {TwoRow(Path(Text_w, "jpg"), "image", 20, "hw", "BOTH", _EXIF_KEYS[ij[1]], D2,
                 _META_KEYS[ij[2]], D2) : ij \in {<<1, 1>>, <<2, 3>>, <<3, 2>>, <<3, 3>>}}
    \cup {BareRow(Path(Text_w, "jpg"), "image", 20, "hw"),
          BareRow(Path(Text_v, "mp4"), "video", 20, "hw"),
          BareRow(Path(Text_notes, "md"), "other", 20, "hw"),
          MetaRow(Path(Text_y1, "mp4"), "video", 20, "hw", "Y_ERR", _META_KEYS[3], DOld),
          ExifRow(Path(Text_y1, "doc"), "other", 20, "hw", "Y_ERR", _EXIF_KEYS[1], DOld)}

\* os.walk lists every path once
DistinctPaths(df) == \A i, j \in 1..Len(df) : df[i].path = df[j].path => i = j

NarrowLedgers ==
    UNION {{df \in [1..n -> NarrowRows] : DistinctPaths(df)} : n \in 0..MaxRows}

Ledgers ==
    NarrowLedgers
    \cup {[df EXCEPT ![k] = w] : <<df, k, w>> \in
            {x \in NarrowLedgers \X (1..MaxRows) \X WideRows : x[2] <= Len(x[1])}}

\* The paths of a ledger that can be read when the tidy stage runs
Readable(df) == {df[i].path : i \in 1..Len(df)} \ {Path(Text_gone, "jpg")}

\* What an earlier run and its operator may have left in the destination
PreTree ==
    {[dir  |-> Dir("Other_files", <<>>),
      name |-> Name("", Text_notes, "", Fmt05(2), "txt"),
      from |-> Path(Text_pre, "txt")],
     [dir  |-> Dir("Photos_bydt", Split(ShortDate(D1), "/")),
      name |-> Name("IMG", LongDate(D1), "EXIF_U", Fmt05(2), "jpg"),
      from |-> Path(Text_pre, "jpg")]}

\* the directories that hold the files of t
RECURSIVE Parents(_)
Parents(d) ==
    IF d.sub = <<>> THEN {d}
    ELSE {d} \cup Parents(Dir(d.base, SubSeq(d.sub, 1, Len(d.sub) - 1)))

DirsOf(t) == UNION {Parents(e.dir) : e \in t}

BadColumns ==
    {<<"missing">>,
     SubSeq(_COLS_SET, 1, Len(_COLS_SET) - 1),
     [i \in 1..Len(_COLS_SET) |->
        IF i = 1 THEN _COLS_SET[2] ELSE IF i = 2 THEN _COLS_SET[1] ELSE _COLS_SET[i]]}

InitTidy ==
    /\ pc = "t_start"
    /\ \/ /\ columns = _COLS_SET
          /\ file_dataframe \in Ledgers
          /\ remove = FALSE
          /\ tree0 = {}
       \/ /\ columns = _COLS_SET
          /\ file_dataframe \in NarrowLedgers
          /\ remove \in BOOLEAN
          /\ tree0 \in {{}, PreTree}
       \/ /\ columns \in BadColumns
          /\ file_dataframe = <<>>
          /\ remove \in BOOLEAN
          /\ tree0 \in {{}, PreTree}
    /\ d_df = <<>>
    /\ sel = ""
    /\ chked_dataframe = <<>>
    /\ tree = tree0
    /\ dirs = DirsOf(tree0)
    /\ sources = Readable(file_dataframe)
    /\ row_i = 0
    /\ success = 0
    /\ fail = 0
    /\ confi = "None"
    /\ yerr_files = <<>>
    /\ failed_files = <<>>
    /\ moved = <<>>
    /\ InitIdle
    /\ InitNormIdle

\* main, lines 415-425
TidyStart ==
    /\ pc = "t_start"
    /\ pc' = IF columns = <<"missing">> THEN "t_exit"
             ELSE IF ~chk_cols(columns, _COLS_SET) THEN "t_exit"
             ELSE "t_dup"
    /\ UNCHANGED <<normVars, collectVars, tidyVars>>

\* chk_duplicate, lines 217-221
ChkDuplicate ==
    /\ pc = "t_dup"
    /\ d_df' = Duplicated(file_dataframe)
    /\ pc' = "t_prompt"
    /\ UNCHANGED <<normVars, collectVars, columns, file_dataframe, sel, chked_dataframe,
                   remove, tree0, treeVars, loopVars>>

Answers == {"YES", "NO", "EXIT", "yes", ""}

\* chk_duplicate, lines 222-233: one answer of the operator
Answer(a) ==
    /\ pc = "t_prompt"
    /\ sel' = a
    /\ pc' = IF a \in {"YES", "NO"} THEN "t_mkcat"
             ELSE IF a = "EXIT" THEN "t_exit"
             ELSE "t_prompt"
    /\ chked_dataframe' = IF a = "YES" THEN DropDuplicates(file_dataframe)
                          ELSE IF a = "NO" THEN file_dataframe
                          ELSE chked_dataframe
    /\ UNCHANGED <<normVars, collectVars, columns, file_dataframe, d_df, remove, tree0,
                   treeVars, loopVars>>

\* mk_category_dirs
MkCategoryDirs ==
    /\ pc = "t_mkcat"
    /\ dirs' = dirs \cup {Dir(_FILE_CATEGORY(k), <<>>) : k \in CategoryKeys}
    /\ pc' = "t_mkdate"
    /\ UNCHANGED <<normVars, collectVars, ledgerVars, tree, sources, loopVars>>

DateDirs ==
    UNION {{Dir(b, <<Str(y)>>)} \cup {Dir(b, <<Str(y), Pad2(m)>>) : m \in 1..12} :
             <<b, y>> \in _DATE_DIRS \X (begin_year..tm_year)}

\* mk_date_dirs
MkDateDirs ==
    /\ pc = "t_mkdate"
    /\ dirs' = dirs \cup DateDirs
    /\ pc' = "t_loop"
    /\ UNCHANGED <<normVars, collectVars, ledgerVars, tree, sources, loopVars>>

\* the remove argument of reorgnize_file: what main passes at line 431
ReorgRemove == FALSE

\* reorgnize_file, lines 304-394: one turn of the loop
Place ==
    /\ pc = "t_loop"
    /\ row_i < Len(chked_dataframe)
    /\ LET r      == chked_dataframe[row_i + 1]
           tg     == Target(dirs, tree, r, confi)
           reason == MoveReason(dirs, sources, r.path, tg.dir, ReorgRemove)
       IN  /\ confi' = tg.confi
           /\ IF tg.raised # ""
              THEN /\ pc' = "t_aborted"
                   /\ UNCHANGED <<treeVars, row_i, success, fail, yerr_files,
                                  failed_files, moved>>
              ELSE /\ pc' = "t_loop"
                   /\ row_i' = row_i + 1
                   /\ yerr_files' =
                        IF tg.yerr
                        THEN Append(yerr_files,
                                    [source |-> r.path, dir |-> tg.dir, name |-> tg.name,
                                     size |-> r.size, EXIF_K |-> r.EXIF_K, EXIF_L |-> r.EXIF_L,
                                     META_K |-> r.META_K, META_L |-> r.META_L])
                        ELSE yerr_files
                   /\ IF reason = ""
                      THEN /\ success' = success + 1
                           /\ tree' = Written(tree, r.path, tg.dir, tg.name)
                           /\ sources' = IF ReorgRemove THEN sources \ {r.path} ELSE sources
                           /\ moved' = Append(moved, [source |-> r.path, dir |-> tg.dir,
                                                      name |-> tg.name, remove |-> ReorgRemove])
                           /\ UNCHANGED <<fail, failed_files, dirs>>
                      ELSE /\ fail' = fail + 1
                           /\ failed_files' =
                                Append(failed_files,
                                       [source |-> r.path, dir |-> tg.dir, name |-> tg.name,
                                        remove |-> ReorgRemove, size |-> r.size,
                                        reason |-> reason])
                           /\ UNCHANGED <<success, moved, treeVars>>
    /\ UNCHANGED <<normVars, collectVars, ledgerVars>>

\* reorgnize_file, lines 395-407: the side ledgers are written
FinishReorgnize ==
    /\ pc = "t_loop"
    /\ row_i = Len(chked_dataframe)
    /\ tree' =
         LET t1 == IF failed_files # <<>>
                   THEN Written(tree, Path(Text_fxlsx, "xlsx"), Dir(".", <<>>),
                                Name("", Text_fxlsx, "", <<>>, "xlsx"))
                   ELSE tree
         IN  IF yerr_files # <<>>
             THEN Written(t1, Path(Text_yxlsx, "xlsx"), Dir(_FILE_CATEGORY("year_err"), <<>>),
                          Name("", Text_yxlsx, "", <<>>, "xlsx"))
             ELSE t1
    /\ pc' = "t_rmdirs"
    /\ UNCHANGED <<normVars, collectVars, ledgerVars, dirs, sources, loopVars>>

\* the directories os.listdir finds something in: a file or a directory
Occupied(ds, t) ==
    {e.dir : e \in t}
    \cup {Dir(d.base, SubSeq(d.sub, 1, Len(d.sub) - 1)) : d \in {x \in ds : x.sub # <<>>}}

\* rm_date_dirs: the empty month directories go, then the empty year directories
RmDateDirs ==
    /\ pc = "t_rmdirs"
    /\ LET months == {d \in DateDirs : Len(d.sub) = 2}
           years  == {d \in DateDirs : Len(d.sub) = 1}
           d1     == dirs \ (months \ Occupied(dirs, tree))
       IN  dirs' = d1 \ (years \ Occupied(d1, tree))
    /\ pc' = "t_done"
    /\ UNCHANGED <<normVars, collectVars, ledgerVars, tree, sources, loopVars>>

NextTidy ==
    \/ TidyStart
    \/ ChkDuplicate
    \/ \E a \in Answers : Answer(a)
    \/ MkCategoryDirs
    \/ MkDateDirs
    \/ Place
    \/ FinishReorgnize
    \/ RmDateDirs

SpecTidy == InitTidy /\ [][NextTidy]_vars

(***************************************************************************)
(* reorgnize_file on one undated media file, over the stems of file names  *)
(***************************************************************************)
MaxStem == 4

\* The characters of the stems: an ASCII letter, two digits, the underscore and
\* a Latin letter outside A-Za-z (e with acute, U+00E9)
StemChars == {"a", "1", "2", "_", "u00E9"}

\* Longer stems, with ideographs inside [U+4E00, U+9FA5] and one outside
\* (U+3400)
LongStems ==
    {Text_v,
     <<"u4E0B", "_", "_", "1", "u5348", "_", "2", "_", "u4E0A">>,
     <<"_", "u3400", "_", "_", "7", "u4E00", "_">>,
     <<"I", "M", "G", "_", "_", "_", "2", "0", "2", "2", "_", "u00E9", "t", "u00E9">>}

Stems == UNION {[1..n -> StemChars] : n \in 0..MaxStem} \cup LongStems

InitPick ==
    /\ pc = "t_start"
    /\ columns = _COLS_SET
    /\ \E stem \in Stems, te \in {<<"image", "jpg">>, <<"video", "mp4">>} :
         file_dataframe = <<BareRow(Path(stem, te[2]), te[1], 20, "hw")>>
    /\ remove = FALSE
    /\ tree0 = {}
    /\ d_df = <<>>
    /\ sel = ""
    /\ chked_dataframe = <<>>
    /\ tree = tree0
    /\ dirs = DirsOf(tree0)
    /\ sources = Readable(file_dataframe)
    /\ row_i = 0
    /\ success = 0
    /\ fail = 0
    /\ confi = "None"
    /\ yerr_files = <<>>
    /\ failed_files = <<>>
    /\ moved = <<>>
    /\ InitIdle
    /\ InitNormIdle

SpecPick == InitPick /\ [][NextTidy]_vars

(***************************************************************************)
(* Properties                                                              *)
(***************************************************************************)
\* the groups the pattern finds in a raw text, after the letters are stripped
\* and the separators rewritten
Groups(raw) == ReSearch(Replace(Replace(StripLetters(raw), "-", ":"), "/", ":"))

HasDateKey(src, tag_keys) == src.decode = "ok" /\ FirstKey(src.tags, tag_keys) # "None"

SelectedRaw(src, tag_keys) == TagValue(src.tags, FirstKey(src.tags, tag_keys))

\* C1: when get_datetime has classified a file and the year test is still to
\* come, the check is BOTH for two valid sources with equal long dates, D_ERR for
\* two valid sources with different long dates, the name of the only valid
\* source when one is valid, and absent (with stat 1) when none is.
C1_Classification ==
    pc = "gate" =>
      LET e == exif_dt.stat = "0"
          m == meta_dt.stat = "0"
      IN  /\ (e /\ m /\ exif_dt.long = meta_dt.long) => msg.check = "BOTH"
          /\ (e /\ m /\ exif_dt.long # meta_dt.long) => msg.check = "D_ERR"
          /\ (e /\ ~m) => msg.check = "EXIF"
          /\ (~e /\ m) => msg.check = "META"
          /\ (~e /\ ~m) => (msg.check = "None" /\ msg.stat = "1")
          /\ (e \/ m) => msg.stat = "0"

C1_Witness ==
    /\ pc = "gate"
    /\ msg.check = "D_ERR"
    /\ exif_dt.stat = "0" /\ meta_dt.stat = "0"
    /\ exif_dt.long # meta_dt.long

\* the short date of the source the tidy stage files a record by
FilingShort(m) ==
    IF m.EXIF_S # None /\ m.META_S # None
    THEN (IF ChoseDErr(m.EXIF_K, m.META_K, "None").chose = "META" /\ m.EXIF_L # m.META_L
          THEN m.META_S ELSE m.EXIF_S)
    ELSE IF m.EXIF_S # None THEN m.EXIF_S ELSE m.META_S

\* C2: every file with a valid date whose filing year is below the floor year or
\* above the current year leaves get_datetime with the check Y_ERR, whatever
\* the check was before the year test.
C2_YearGateAlways ==
    (pc = "append" /\ IsMedia(file) /\ msg.stat = "0") =>
      LET y == YearOfShort(FilingShort(msg))
      IN  (y < begin_year \/ y > tm_year) => msg.check = "Y_ERR"

\* both sources hold a matching date text with the same six numbers
SourcesAgree(f) ==
    /\ IsMedia(f)
    /\ HasDateKey(f.exif, _EXIF_KEYS) /\ HasDateKey(f.meta, _META_KEYS)
    /\ Groups(SelectedRaw(f.exif, _EXIF_KEYS)).ok
    /\ Groups(SelectedRaw(f.exif, _EXIF_KEYS)) = Groups(SelectedRaw(f.meta, _META_KEYS))

AgreedYear(f) == Groups(SelectedRaw(f.exif, _EXIF_KEYS)).year

\* C3 as stated: two sources that agree on a date of 1899 or 2051 give Y_ERR.
C3_Original ==
    (pc = "append" /\ SourcesAgree(file) /\ AgreedYear(file) \in {1899, 2051}) =>
      msg.check = "Y_ERR"

\* C3 as amended: two sources that agree on a date of 1899 or 2051 are both
\* INVALID_DATE and the file ends without a check; two sources that agree on a
\* valid date of 1900..2050 whose year is below the floor year or above the
\* current year end with Y_ERR.
C3_Amended ==
    (pc = "append" /\ SourcesAgree(file)) =>
      /\ AgreedYear(file) \in {1899, 2051} =>
           (exif_dt.stat = "4" /\ meta_dt.stat = "4" /\ msg.check = "None")
      /\ (/\ AgreedYear(file) \in 1900..2050
          /\ (AgreedYear(file) < begin_year \/ AgreedYear(file) > tm_year)
          /\ exif_dt.stat = "0" /\ meta_dt.stat = "0") => msg.check = "Y_ERR"

C3_Witness ==
    /\ pc = "append"
    /\ SourcesAgree(file)
    /\ AgreedYear(file) = 2051
    /\ msg.check = "None"

\* C4: a source whose date text does not match the pattern gets stat 4 and
\* nothing is raised, so the file gets its record and the batch goes on.
C4_UnmatchedIsInvalid ==
    /\ (/\ IsMedia(file) /\ pc # "exif"
        /\ HasDateKey(file.exif, _EXIF_KEYS)
        /\ ~Groups(SelectedRaw(file.exif, _EXIF_KEYS)).ok)
         => (exif_dt.stat = "4" /\ exif_dt.raised = "" /\ pc # "aborted")
    /\ (/\ IsMedia(file) /\ pc \notin {"exif", "meta"} /\ exif_dt.raised = ""
        /\ HasDateKey(file.meta, _META_KEYS)
        /\ ~Groups(SelectedRaw(file.meta, _META_KEYS)).ok)
         => (meta_dt.stat = "4" /\ meta_dt.raised = "" /\ pc # "aborted")

\* a matching date text whose day is in 1..31 and not a day of its month
ImpossibleDay(raw) ==
    LET g == Groups(raw)
    IN  /\ g.ok
        /\ g.year \in 1900..2050 /\ g.month \in 1..12 /\ g.day \in 1..31
        /\ g.day > DaysInMonth(g.year, g.month)

\* C5: a source whose date has a day its month does not have gets stat 4,
\* never stat 0, and nothing is raised, so the batch goes on.
C5_ImpossibleDayIsInvalid ==
    /\ (/\ IsMedia(file) /\ pc # "exif"
        /\ HasDateKey(file.exif, _EXIF_KEYS)
        /\ ImpossibleDay(SelectedRaw(file.exif, _EXIF_KEYS)))
         => (exif_dt.stat = "4" /\ exif_dt.raised = "" /\ pc # "aborted")
    /\ (/\ IsMedia(file) /\ pc \notin {"exif", "meta"} /\ exif_dt.raised = ""
        /\ HasDateKey(file.meta, _META_KEYS)
        /\ ImpossibleDay(SelectedRaw(file.meta, _META_KEYS)))
         => (meta_dt.stat = "4" /\ meta_dt.raised = "" /\ pc # "aborted")

\* C6: for a raw text that matches the pattern, process_datetime returns no date
\* exactly when the year is outside 1900..2050, the month outside 1..12 or the
\* day outside 1..31, and otherwise the zero-padded text of the same year, month
\* and day with the hour mod 24, the minute mod 60 and the second mod 60.
C6_Normalize ==
    (pc = "norm_done" /\ raw_datetime.style # "date_only") =>
      LET i == raw_datetime
          rejected == \/ i.year < 1900 \/ i.year > 2050
                      \/ i.month < 1 \/ i.month > 12
                      \/ i.day < 1 \/ i.day > 31
      IN  /\ pro_datetime.raised = ""
          /\ rejected <=> pro_datetime.value = None
          /\ ~rejected =>
               /\ pro_datetime.value =
                    Pad4(i.year) \o <<":">> \o Pad2(i.month) \o <<":">> \o Pad2(i.day)
                      \o <<" ">> \o Pad2(i.hour % 24) \o <<":">> \o Pad2(i.minute % 60)
                      \o <<":">> \o Pad2(i.second % 60)
               /\ IntOf(pro_datetime.value, 12, 2) \in 0..23
               /\ IntOf(pro_datetime.value, 15, 2) \in 0..59
               /\ IntOf(pro_datetime.value, 18, 2) \in 0..59

C6_Witness ==
    /\ pc = "norm_done"
    /\ raw_datetime.style = "slash_cjk"
    /\ raw_datetime.hour = 99 /\ raw_datetime.minute = 75 /\ raw_datetime.second = 61
    /\ pro_datetime.value # None
    /\ IntOf(pro_datetime.value, 12, 2) = 3

\* the row of the checked ledger that has the path
RowOf(path) ==
    chked_dataframe[CHOOSE i \in 1..Len(chked_dataframe) : chked_dataframe[i].path = path]

\* the tier (0, 1, 2) of a key in its list
TierOf(key, tag_keys) == (CHOOSE i \in 1..Len(tag_keys) : tag_keys[i] = key) - 1

\* C7: a D_ERR record is filed by the source whose key sits at the lower tier,
\* by EXIF when both sit at the same tier; its code is D_<source>_<U|H|N> for
\* that tier and its directory and name are made of that source's dates.
C7_MismatchChoice ==
    \A k \in 1..Len(moved) :
      LET r  == RowOf(moved[k].source)
          te == TierOf(r.EXIF_K, _EXIF_KEYS)
          tm == TierOf(r.META_K, _META_KEYS)
          side == IF te <= tm THEN "EXIF" ELSE "META"
          letter == <<"U", "H", "N">>[(IF te <= tm THEN te ELSE tm) + 1]
      IN  r.check = "D_ERR" =>
            /\ moved[k].name.tag = "D_" \o side \o "_" \o letter
            /\ moved[k].name.body = (IF side = "EXIF" THEN r.EXIF_L ELSE r.META_L)
            /\ moved[k].dir.sub = Split(IF side = "EXIF" THEN r.EXIF_S ELSE r.META_S, "/")

C7_Witness ==
    \E k \in 1..Len(moved) :
      /\ RowOf(moved[k].source).check = "D_ERR"
      /\ RowOf(moved[k].source).EXIF_K = _EXIF_KEYS[2]
      /\ RowOf(moved[k].source).META_K = _META_KEYS[2]
      /\ moved[k].name.tag = "D_EXIF_H"

\* five digits, written out
FiveDigits(n) ==
    <<Digits[((n \div 10000) % 10) + 1], Digits[((n \div 1000) % 10) + 1],
      Digits[((n \div 100) % 10) + 1], Digits[((n \div 10) % 10) + 1],
      Digits[(n % 10) + 1]>>

\* the names present in moved[k]'s directory when moved[k] was placed
NamesBefore(k) ==
    {e.name : e \in {x \in tree0 : x.dir = moved[k].dir}}
    \cup {moved[j].name : j \in {x \in 1..(k - 1) : moved[x].dir = moved[k].dir}}

\* C8: the sequence suffix of a placed file is 1 plus the number of entries its
\* directory held when it was placed; the files placed into a directory that
\* was empty carry 00001, 00002, ... in the order of their placement.
C8_SequenceSuffix ==
    \A k \in 1..Len(moved) :
      /\ moved[k].name.seq = FiveDigits(1 + Cardinality(NamesBefore(k)))
      /\ {x \in tree0 : x.dir = moved[k].dir} = {} =>
           moved[k].name.seq =
             FiveDigits(1 + Cardinality({j \in 1..(k - 1) : moved[j].dir = moved[k].dir}))

C8_Witness ==
    /\ Len(moved) = 3
    /\ tree0 = {}
    /\ moved[1].dir = moved[2].dir /\ moved[2].dir = moved[3].dir
    /\ moved[1].name.seq = <<"0", "0", "0", "0", "1">>
    /\ moved[2].name.seq = <<"0", "0", "0", "0", "2">>
    /\ moved[3].name.seq = <<"0", "0", "0", "0", "3">>

\* C9: no two placed files have the same target, and every file the tree held
\* or received is still there as it was written.
C9_NoCollision ==
    /\ \A j, k \in 1..Len(moved) :
         (moved[j].dir = moved[k].dir /\ moved[j].name = moved[k].name) => j = k
    /\ tree0 \subseteq tree
    /\ \A k \in 1..Len(moved) :
         [dir |-> moved[k].dir, name |-> moved[k].name, from |-> moved[k].source] \in tree

\* the rows of df at the indices of K, in their order
RECURSIVE RowsAt(_, _)
RowsAt(df, K) ==
    IF K = {} THEN <<>>
    ELSE LET i == CHOOSE x \in K : \A y \in K : x <= y
         IN  <<df[i]>> \o RowsAt(df, K \ {i})

SameKey(a, b) == a.ext = b.ext /\ a.size = b.size /\ a.md5 = b.md5

\* C10: the rows flagged are those that share extension, size and hash with
\* another row; planning starts only after YES or NO; after YES it gets the first
\* row of every (extension, size, hash) in ledger order, after NO the whole
\* ledger; EXIT ends the run.
C10_Duplicates ==
    LET df == file_dataframe
        planning == pc \in {"t_mkcat", "t_mkdate", "t_loop", "t_rmdirs", "t_done", "t_aborted"}
    IN  /\ pc \notin {"t_start", "t_dup", "t_exit"} =>
              d_df = RowsAt(df, {i \in 1..Len(df) :
                                    \E j \in 1..Len(df) : j # i /\ SameKey(df[i], df[j])})
        /\ planning => sel \in {"YES", "NO"}
        /\ (planning /\ sel = "NO") => chked_dataframe = df
        /\ (planning /\ sel = "YES") =>
              chked_dataframe =
                RowsAt(df, {i \in 1..Len(df) : \A j \in 1..(i - 1) : ~SameKey(df[i], df[j])})
        /\ sel = "EXIT" => pc = "t_exit"

C10_Witness ==
    /\ pc = "t_loop"
    /\ sel = "YES"
    /\ Len(file_dataframe) = 3
    /\ Len(d_df) = 2
    /\ Len(chked_dataframe) = 2
    /\ chked_dataframe[1] = file_dataframe[1]

\* C11: when the ledger is missing or its columns are not the 14 ledger columns
\* in their order, main exits before chk_duplicate: no prompt, no directory
\* made, no file copied or moved.
C11_BadLedgerAborts ==
    columns # _COLS_SET =>
      /\ pc \in {"t_start", "t_exit"}
      /\ sel = "" /\ d_df = <<>> /\ chked_dataframe = <<>>
      /\ dirs = DirsOf(tree0)
      /\ tree = tree0
      /\ moved = <<>> /\ failed_files = <<>> /\ success = 0 /\ fail = 0

C11_Witness ==
    /\ pc = "t_exit"
    /\ Len(columns) = Len(_COLS_SET)
    /\ columns # _COLS_SET
    /\ columns[1] = _COLS_SET[2] /\ columns[2] = _COLS_SET[1]
    /\ dirs = DirsOf(tree0)

\* C12: with the move flag set every placed file is gone from its original path,
\* and without it every placed file is still there.
C12_FlagHonoured ==
    \A k \in 1..Len(moved) :
      /\ remove => (moved[k].remove /\ moved[k].source \notin sources)
      /\ ~remove => (~moved[k].remove /\ moved[k].source \in sources)

\* C13: a file whose copy or move fails gets exactly one row of the failure
\* list and raises the failure count, and the loop goes on; every record the loop
\* has passed is counted once, as a success or as a failure, so at the end of the
\* loop success + fail is the number of records and the list has fail rows.
C13_FailureIsLocal ==
    /\ fail = Len(failed_files)
    /\ success = Len(moved)
    /\ success + fail = row_i
    /\ \A i \in 1..row_i :
         LET p  == chked_dataframe[i].path
             nf == Cardinality({k \in 1..Len(failed_files) : failed_files[k].source = p})
             nm == Cardinality({k \in 1..Len(moved) : moved[k].source = p})
         IN  IF p \in sources THEN nm = 1 /\ nf = 0 ELSE nm = 0 /\ nf = 1
    /\ pc \in {"t_rmdirs", "t_done"} => row_i = Len(chked_dataframe)

C13_Witness ==
    /\ pc = "t_done"
    /\ Len(chked_dataframe) = 3
    /\ fail = 1 /\ success = 2
    /\ failed_files[1].source = chked_dataframe[1].path
    /\ failed_files[1].reason = "copy error"

\* the letter of a tier
TierLetter(t) == <<"U", "H", "N">>[t + 1]

\* the lowest tier either key of a row sits at
LowTier(r) ==
    LET S == {i \in 1..3 : r.EXIF_K = _EXIF_KEYS[i] \/ r.META_K = _META_KEYS[i]}
    IN  (CHOOSE i \in S : \A j \in S : i <= j) - 1

\* the source a classified record is filed by
FiledBy(r) ==
    IF r.check \in {"EXIF", "BOTH"} THEN "EXIF"
    ELSE IF r.check = "META" THEN "META"
    ELSE IF r.EXIF_K = _EXIF_KEYS[LowTier(r) + 1] THEN "EXIF" ELSE "META"

\* the confidence code of a classified record
CodeOf(r) ==
    IF r.check = "EXIF" THEN "EXIF_" \o TierLetter(TierOf(r.EXIF_K, _EXIF_KEYS))
    ELSE IF r.check = "META" THEN "META_" \o TierLetter(TierOf(r.META_K, _META_KEYS))
    ELSE IF r.check = "BOTH" THEN "BOTH_" \o TierLetter(LowTier(r))
    ELSE "D_" \o FiledBy(r) \o "_" \o TierLetter(LowTier(r))

\* the dated base directory of a category
DatedBase(type) == _FILE_CATEGORY(type \o "_with_datetime")

\* the target a copied or failed record was given
Targets ==
    {[source |-> moved[k].source, dir |-> moved[k].dir, name |-> moved[k].name] :
        k \in 1..Len(moved)}
    \cup {[source |-> failed_files[k].source, dir |-> failed_files[k].dir,
           name |-> failed_files[k].name] : k \in 1..Len(failed_files)}

C15_Quarantine ==
    /\ \A t \in Targets :
         LET r == RowOf(t.source)
         IN  r.check = "Y_ERR" =>
               /\ t.dir = Dir(_FILE_CATEGORY("year_err"), <<>>)
               /\ t.name.prefix = "" /\ t.name.tag = ""
               /\ t.name.body = r.path.stem
               /\ Len(t.name.seq) = 5
               /\ t.name.ext = r.ext
    /\ \A i \in 1..row_i :
         LET r == chked_dataframe[i]
             K == {k \in 1..Len(yerr_files) : yerr_files[k].source = r.path}
         IN  /\ Cardinality(K) = (IF r.check = "Y_ERR" THEN 1 ELSE 0)
             /\ \A k \in K :
                  /\ [source |-> r.path, dir |-> yerr_files[k].dir,
                      name |-> yerr_files[k].name] \in Targets
                  /\ yerr_files[k].size = r.size
                  /\ yerr_files[k].EXIF_K = r.EXIF_K /\ yerr_files[k].EXIF_L = r.EXIF_L
                  /\ yerr_files[k].META_K = r.META_K /\ yerr_files[k].META_L = r.META_L
    /\ \A k \in 1..Len(yerr_files) :
         \E i \in 1..row_i : chked_dataframe[i].path = yerr_files[k].source
    /\ \A i \in 1..Len(chked_dataframe) :
         \E j \in 1..Len(file_dataframe) : chked_dataframe[i] = file_dataframe[j]

C15_Witness ==
    /\ Len(yerr_files) = 1
    /\ \E k \in 1..Len(moved) :
         /\ moved[k].source = yerr_files[1].source
         /\ RowOf(moved[k].source).type = "video"
         /\ RowOf(moved[k].source).check = "Y_ERR"
         /\ moved[k].dir = Dir("Year_err", <<>>)
         /\ moved[k].name.body = <<"y", "_", "1">>
         /\ moved[k].name.ext = "mp4"

\* C16: the row process_files appends for a file holds that file's own values
\* only: its tag keys, raw texts and dates are those get_datetime returned for
\* it, and absent for a file that is neither image nor video.
C16_RowIsOwn ==
    (pc = "next" /\ result # <<>>) =>
      LET r == result[Len(result)]
      IN  /\ r.type = file.type
          /\ r.check = msg.check
          /\ r.EXIF_K = msg.EXIF_K /\ r.META_K = msg.META_K
          /\ r.EXIF_R = msg.EXIF_R /\ r.META_R = msg.META_R
          /\ r.EXIF_S = msg.EXIF_S /\ r.META_S = msg.META_S
          /\ r.EXIF_L = msg.EXIF_L /\ r.META_L = msg.META_L

\* C17: when the loop of reorgnize_file runs, the directory <dated base>/<year>/
\* <month> of every BOTH, EXIF, META and D_ERR record of the ledger exists, and
\* the loop never ends on a missing directory.
C17_DatedDirExists ==
    /\ pc = "t_loop" =>
         \A i \in 1..Len(chked_dataframe) :
           LET r == chked_dataframe[i]
           IN  r.check \in {"BOTH", "EXIF", "META", "D_ERR"} =>
                 Dir(DatedBase(r.type),
                     Split(IF FiledBy(r) = "EXIF" THEN r.EXIF_S ELSE r.META_S, "/")) \in dirs
    /\ pc # "t_aborted"

\* what an extractor returned for a decoded source, against the source
SelectsByPriority(dt, src, tag_keys) ==
    LET present == {i \in 1..Len(tag_keys) : \E t \in src.tags : t[1] = tag_keys[i]}
    IN  /\ src.decode = "error" => dt.stat = "1"
        /\ (src.decode = "ok" /\ src.tags = {}) => dt.stat = "2"
        /\ (src.decode = "ok" /\ src.tags # {} /\ present = {}) => dt.stat = "3"
        /\ (src.decode = "ok" /\ present # {} /\ dt.raised = "") => dt.stat \in {"0", "4"}
        /\ dt.stat = "0" =>
             \E i \in present :
               /\ dt.key = tag_keys[i]
               /\ \A j \in present : i <= j
               /\ <<tag_keys[i], dt.raw>> \in src.tags

\* C18: an extractor matches the key of lowest index in its key list among the
\* keys the tag set holds; tags without any of the keys give stat 3, an empty
\* tag set stat 2, a failed decode stat 1.
C18_KeyPriority ==
    /\ (IsMedia(file) /\ pc # "exif") =>
         SelectsByPriority(exif_dt, file.exif, _EXIF_KEYS)
    /\ (IsMedia(file) /\ pc \notin {"exif", "meta"} /\ exif_dt.raised = "") =>
         SelectsByPriority(meta_dt, file.meta, _META_KEYS)

C18_Witness ==
    /\ pc = "classify"
    /\ \E t \in file.exif.tags : t[1] = _EXIF_KEYS[2]
    /\ \E t \in file.exif.tags : t[1] = _EXIF_KEYS[3]
    /\ exif_dt.stat = "0" /\ exif_dt.key = _EXIF_KEYS[2]
    /\ file.meta.decode = "ok" /\ file.meta.tags # {} /\ meta_dt.stat = "3"

\* Latin letters and CJK ideographs among the characters of the stems
IsLatinLetter(c) == c \in LatinLetters \cup {"u00E9"}

IsCJK(c) == c \in CJKChars \cup {"u3400"}

\* the shape of a fragment: no such letter, no underscore at either end, no two
\* underscores in a row
NoLetter(b, Letter(_)) == \A i \in 1..Len(b) : ~Letter(b[i])

Trimmed(b) ==
    /\ b # <<>> => (b[1] # "_" /\ b[Len(b)] # "_")
    /\ \A i \in 1..(Len(b) - 1) : ~(b[i] = "_" /\ b[i + 1] = "_")

\* the undated placement of a NONE media record, apart from the letters
UndatedPlacement(m) ==
    LET r == RowOf(m.source)
    IN  (r.check = "None" /\ r.type \in {"image", "video"}) =>
          /\ m.dir = Dir(_FILE_CATEGORY(r.type \o "_without_datetime"), <<>>)
          /\ m.name.prefix = "IMG" /\ m.name.tag = "NODT"
          /\ Len(m.name.seq) = 5
          /\ m.name.ext = r.ext
          /\ m.name.body = pick_num(r.path.stem)
          /\ Trimmed(m.name.body)
          /\ SelectSeq(m.name.body, IsDigit) = SelectSeq(r.path.stem, IsDigit)
          /\ pick_num(m.name.body) = m.name.body

====
